---- MODULE Spec2Model ----
(***************************************************************************)
(* Model of src/models/rangevit.py: the RangeViT constructor (backbone     *)
(* validation, configuration assembly, pretrained-weight surgery and       *)
(* partial state loading), the factory functions create_vit,               *)
(* create_decoder and create_rangevit, and VisionTransformer.forward.      *)
(*                                                                         *)
(* Python values: None is the empty tuple, an int n is <<n>>, a pair       *)
(* (a, b) is <<a, b>> wherever a slot can hold either (patch sizes).       *)
(* A dict is a function whose DOMAIN is its key set.  An optional object   *)
(* is a sequence of length 0 (absent / unbound) or 1 (present).            *)
(* State-dict keys are sequences of characters so that Python's substring  *)
(* test ('decoder' in key) is computed, not assumed.                       *)
(***************************************************************************)
EXTENDS Integers, Sequences, FiniteSets, TLC

VARIABLES
    entry,                  \* which public entry point the caller invoked
    pc,                     \* position inside the running call
    err,                    \* name of the exception raised, "" if none
    args,                   \* arguments of RangeViT.__init__ / create_rangevit
    hp,                     \* n_heads, n_layers, patch_size, ... (lines 197-202)
    decoder_cfg,            \* the decoder dict object (shared by reference)
    model_cfg,              \* net_kwargs / the dict the caller passes to a factory
    cfg0,                   \* the caller's dicts as they were when the factory was called
    enc_in,                 \* encoder object handed to create_decoder
    built,                  \* what the factories have built so far
    create_calls,           \* number of create_rangevit invocations
    params,                 \* state dict of self.rangevit
    checkpoint,             \* torch.load(pretrained_path)['model'] as read
    pretrained_state_dict,  \* the local being edited (lines 242-255)
    decoder_keys,           \* the local list decoder_keys (line 250)
    load_calls,             \* number of load_state_dict invocations
    loaded,                 \* the dict handed to load_state_dict
    fwd,                    \* the encoder and arguments of a forward call
    x,                      \* the token sequence inside forward
    skip,                   \* the stem's skip output
    blk,                    \* index of the next block to run
    result                  \* the pair returned by forward

vars == <<entry, pc, err, args, hp, decoder_cfg, model_cfg, cfg0, enc_in, built,
          create_calls, params, checkpoint, pretrained_state_dict, decoder_keys,
          load_calls, loaded, fwd, x, skip, blk, result>>

-----------------------------------------------------------------------------
\* Bounds of the model.
MaxVal == 2         \* checkpoint tensors take values 1..MaxVal
MaxLayers == 2      \* n_layers of a VisionTransformer used by forward
MaxPatches == 3     \* num_patches of the stem / tokens returned by the stem

-----------------------------------------------------------------------------
\* Python values and dict operations.
None == <<>>
PyInt(n) == <<n>>
Some(v) == <<v>>

Pop(d, k) == [j \in DOMAIN d \ {k} |-> d[j]]
Put(d, k, v) == [j \in DOMAIN d \cup {k} |-> IF j = k THEN v ELSE d[j]]

\* 'encoder.pos_embed'
K_pos_embed ==
    <<"e","n","c","o","d","e","r",".","p","o","s","_","e","m","b","e","d">>
\* 'encoder.patch_embed.proj.weight'
K_proj_weight ==
    <<"e","n","c","o","d","e","r",".","p","a","t","c","h","_","e","m","b","e","d",".","p","r","o","j",".","w","e","i","g","h","t">>
\* 'encoder.patch_embed.proj.bias'
K_proj_bias ==
    <<"e","n","c","o","d","e","r",".","p","a","t","c","h","_","e","m","b","e","d",".","p","r","o","j",".","b","i","a","s">>
\* 'encoder.cls_token'
K_cls_token ==
    <<"e","n","c","o","d","e","r",".","c","l","s","_","t","o","k","e","n">>
\* 'decoder.head.weight'
K_decoder_head ==
    <<"d","e","c","o","d","e","r",".","h","e","a","d",".","w","e","i","g","h","t">>
\* 'encoder.decoder_embed.bias': 'decoder' occurs, but not as a prefix
K_mid_decoder ==
    <<"e","n","c","o","d","e","r",".","d","e","c","o","d","e","r","_","e","m","b","e","d",".","b","i","a","s">>
\* the literal 'decoder' of line 252
decoder_substr ==
    <<"d","e","c","o","d","e","r">>

\* Keys a checkpoint file may hold, and the keys of the assembled model.
CheckpointKeys ==
    {K_pos_embed, K_proj_weight, K_proj_bias, K_cls_token, K_decoder_head, K_mid_decoder}
ModelKeys ==
    {K_pos_embed, K_proj_weight, K_cls_token, K_decoder_head}

\* Python's  sub in key  on strings.
Contains(key, sub) ==
    \E i \in 0..(Len(key) - Len(sub)) : SubSeq(key, i + 1, i + Len(sub)) = sub

\* Every checkpoint 'model' dict over CheckpointKeys.
Checkpoints ==
    UNION {[S -> 1..MaxVal] : S \in SUBSET CheckpointKeys}

\* The value every parameter has after initialisation (line 91, init_weights).
InitParams == [k \in ModelKeys |-> 0]

-----------------------------------------------------------------------------
\* VisionTransformer.__init__ (lines 30-91) applied to the keyword dict kw.
VisionTransformer_noassert(kw) ==
    LET patch_size == kw["patch_size"]
        patch_stride == IF "patch_stride" \in DOMAIN kw THEN kw["patch_stride"] ELSE None
    IN  IF Len(patch_size) # 2
        THEN [err |-> "TypeError", obj |-> <<>>]
        ELSE [err |-> "",
              obj |-> Some([patch_size |-> patch_size,
                            patch_stride |-> patch_stride,
                            n_layers |-> kw["n_layers"],
                            d_model |-> kw["d_model"],
                            d_ff |-> kw["d_ff"],
                            n_heads |-> kw["n_heads"],
                            n_cls |-> kw["n_cls"],
                            image_size |-> kw["image_size"]])]
VisionTransformer(kw) ==
    LET patch_size == kw["patch_size"]
        patch_stride == IF "patch_stride" \in DOMAIN kw THEN kw["patch_stride"] ELSE None
    IN  IF patch_stride # patch_size
        THEN [err |-> "AssertionError", obj |-> <<>>]
        ELSE IF Len(patch_size) # 2
        THEN [err |-> "TypeError", obj |-> <<>>]
        ELSE [err |-> "",
              obj |-> Some([patch_size |-> patch_size,
                            patch_stride |-> patch_stride,
                            n_layers |-> kw["n_layers"],
                            d_model |-> kw["d_model"],
                            d_ff |-> kw["d_ff"],
                            n_heads |-> kw["n_heads"],
                            n_cls |-> kw["n_cls"],
                            image_size |-> kw["image_size"]])]

mlp_expansion_ratio == 4

\* create_vit (lines 118-135).  cfg is the caller's dict; the function works
\* on a copy, so the caller's dict is not part of the result.
create_vit_keepstride(cfg) ==
    LET c1 == Pop(cfg, "backbone")
        c2 == Put(c1, "d_ff", PyInt(mlp_expansion_ratio * c1["d_model"][1]))
        new_patch_size == c2["new_patch_size"]
        c3 == Pop(c2, "new_patch_size")
        new_patch_stride0 == c3["new_patch_stride"]
        c4 == Pop(c3, "new_patch_stride")
        new_patch_stride == IF new_patch_stride0 = None THEN new_patch_size
                            ELSE new_patch_stride0
        c5 == IF new_patch_size # None
              THEN Put(Put(c4, "patch_size", new_patch_size), "patch_stride", new_patch_stride)
              ELSE Put(c4, "patch_stride", new_patch_stride0)
        r == VisionTransformer(c5)
    IN  [err |-> r.err, encoder |-> r.obj, vit_kwargs |-> Some(c5)]
create_vit(cfg) ==
    LET c1 == Pop(cfg, "backbone")
        c2 == Put(c1, "d_ff", PyInt(mlp_expansion_ratio * c1["d_model"][1]))
        new_patch_size == c2["new_patch_size"]
        c3 == Pop(c2, "new_patch_size")
        new_patch_stride0 == c3["new_patch_stride"]
        c4 == Pop(c3, "new_patch_stride")
        new_patch_stride == IF new_patch_stride0 = None THEN new_patch_size
                            ELSE new_patch_stride0
        c5 == IF new_patch_size # None
              THEN Put(Put(c4, "patch_size", new_patch_size), "patch_stride", new_patch_stride)
              ELSE c4
        r == VisionTransformer(c5)
    IN  [err |-> r.err, encoder |-> r.obj, vit_kwargs |-> Some(c5)]

\* create_decoder (lines 138-150).  dcfg is the caller's dict, copied first.
create_decoder_ownsize(encoder, dcfg) ==
    LET name == dcfg["name"]
        d1 == Pop(dcfg, "name")
        d2 == Put(d1, "d_encoder", encoder.d_model)
        d3 == Put(d2, "patch_size", PyInt(16))
        d4 == Put(d3, "patch_stride", encoder.patch_stride)
    IN  IF name = "up_conv"
        THEN [err |-> "", decoder |-> Some(d4), decoder_kwargs |-> Some(d4)]
        ELSE [err |-> "ValueError", decoder |-> <<>>, decoder_kwargs |-> <<>>]
create_decoder(encoder, dcfg) ==
    LET name == dcfg["name"]
        d1 == Pop(dcfg, "name")
        d2 == Put(d1, "d_encoder", encoder.d_model)
        d3 == Put(d2, "patch_size", encoder.patch_size)
        d4 == Put(d3, "patch_stride", encoder.patch_stride)
    IN  IF name = "up_conv"
        THEN [err |-> "", decoder |-> Some(d4), decoder_kwargs |-> Some(d4)]
        ELSE [err |-> "ValueError", decoder |-> <<>>, decoder_kwargs |-> <<>>]

NotBuilt ==
    [encoder |-> <<>>, decoder |-> <<>>, kpclassifier |-> <<>>, model |-> <<>>,
     vit_kwargs |-> <<>>, decoder_kwargs |-> <<>>]

\* create_rangevit (lines 153-169).  mcfg is the caller's dict and dobj the
\* dict object its 'decoder' entry refers to.  model_cfg.copy() is shallow:
\* the write of line 156 goes to dobj itself, so the result carries the
\* decoder dict object as it is after the call (decoder_obj).
create_rangevit(mcfg, dobj, use_kpconv) ==
    LET m1 == Pop(mcfg, "decoder")
        dcfg == Put(dobj, "n_cls", m1["n_cls"])
        v == create_vit(m1)
        d == create_decoder(v.encoder[1], dcfg)
        kp == [in_channels |-> dcfg["d_decoder"],
               out_channels |-> dcfg["d_decoder"],
               num_classes |-> m1["n_cls"]]
    IN  IF v.err # ""
        THEN [err |-> v.err, decoder_obj |-> dcfg,
              built |-> [NotBuilt EXCEPT !.vit_kwargs = v.vit_kwargs]]
        ELSE IF d.err # ""
        THEN [err |-> d.err, decoder_obj |-> dcfg,
              built |-> [NotBuilt EXCEPT !.vit_kwargs = v.vit_kwargs,
                                         !.encoder = v.encoder]]
        ELSE [err |-> "", decoder_obj |-> dcfg,
              built |-> [encoder |-> v.encoder,
                         decoder |-> d.decoder,
                         kpclassifier |-> Some(kp),
                         model |-> Some([n_cls |-> m1["n_cls"]]),
                         vit_kwargs |-> v.vit_kwargs,
                         decoder_kwargs |-> d.decoder_kwargs]]

\* Module.load_state_dict(sd, strict=False) as called at line 257: every
\* parameter whose key is in sd takes sd's value, the others are untouched,
\* keys of sd the model does not have are ignored.
load_state_dict(p, sd) ==
    [k \in DOMAIN p |-> IF k \in DOMAIN sd THEN sd[k] ELSE p[k]]

-----------------------------------------------------------------------------
\* Inputs.
Backbones == {"vit_small_patch16_384", "vit_base_patch16_384"}
DecoderNames == {"up_conv", "linear"}
PatchOpts == {None, <<2, 8>>, <<4, 4>>}
NCls == {17, 20}
DModels == {384, 192}

\* net_kwargs as assembled at lines 215-232 (the 'decoder' entry is a
\* reference to the decoder dict object, held in decoder_cfg).
NetKwargs(a, h) ==
    [j \in {"backbone", "d_model", "decoder", "drop_path_rate", "dropout", "channels",
            "image_size", "n_cls", "n_heads", "n_layers", "patch_size",
            "new_patch_size", "new_patch_stride", "conv_stem",
            "stem_base_channels", "stem_hidden_dim"} |->
        CASE j = "backbone" -> a.backbone
          [] j = "d_model" -> h.d_model
          [] j = "decoder" -> "ref:decoder_cfg"
          [] j = "drop_path_rate" -> h.drop_path_rate
          [] j = "dropout" -> h.dropout
          [] j = "channels" -> PyInt(5)
          [] j = "image_size" -> <<32, 384>>
          [] j = "n_cls" -> a.n_cls
          [] j = "n_heads" -> h.n_heads
          [] j = "n_layers" -> h.n_layers
          [] j = "patch_size" -> h.patch_size
          [] j = "new_patch_size" -> a.new_patch_size
          [] j = "new_patch_stride" -> a.new_patch_stride
          [] j = "conv_stem" -> "none"
          [] j = "stem_base_channels" -> PyInt(32)
          [] j = "stem_hidden_dim" -> None]

\* The decoder dict of lines 208-212.
DecoderCfg(n_cls, name) ==
    [j \in {"n_cls", "name", "d_decoder", "scale_factor", "skip_filters"} |->
        CASE j = "n_cls" -> n_cls
          [] j = "name" -> name
          [] j = "d_decoder" -> PyInt(64)
          [] j = "scale_factor" -> <<2, 8>>
          [] j = "skip_filters" -> PyInt(0)]

\* Backbone hyper-parameters of lines 197-202.
SmallHP ==
    [n_heads |-> PyInt(6), n_layers |-> PyInt(12), patch_size |-> PyInt(16),
     dropout |-> "0.0", drop_path_rate |-> "0.1", d_model |-> PyInt(384)]

NoArgs ==
    [backbone |-> "", decoder |-> "", new_patch_size |-> None, new_patch_stride |-> None,
     pretrained_path |-> None, use_kpconv |-> FALSE, n_cls |-> PyInt(0)]
NoFwd == [n_layers |-> 0, num_patches |-> 0, return_features |-> FALSE]

Idle ==
    /\ pc = "start" /\ err = ""
    /\ hp = <<>> /\ built = NotBuilt /\ create_calls = 0
    /\ params = InitParams /\ checkpoint = <<>> /\ pretrained_state_dict = <<>>
    /\ decoder_keys = {} /\ load_calls = 0 /\ loaded = <<>>
    /\ x = <<>> /\ skip = <<>> /\ blk = 0 /\ result = <<>>

\* RangeViT(...) is being constructed.
InitRangeViT ==
    /\ entry = "RangeViT"
    /\ args \in [backbone : Backbones, decoder : DecoderNames,
                 new_patch_size : PatchOpts, new_patch_stride : PatchOpts,
                 pretrained_path : {None, <<1>>}, use_kpconv : BOOLEAN,
                 n_cls : {PyInt(n) : n \in NCls}]
    /\ decoder_cfg = <<>> /\ model_cfg = <<>> /\ cfg0 = <<>> /\ enc_in = <<>>
    /\ fwd = NoFwd

\* A caller's model_cfg for create_vit / create_rangevit.
CallerCfg(n_cls, d_model, nps, nstride) ==
    NetKwargs([backbone |-> "vit_small_patch16_384", n_cls |-> PyInt(n_cls),
               new_patch_size |-> nps, new_patch_stride |-> nstride],
              [SmallHP EXCEPT !.d_model = PyInt(d_model)])

\* A caller's decoder dict: with or without an 'n_cls' entry of its own.
CallerDecoderCfgs ==
    {DecoderCfg(PyInt(n), name) : n \in NCls, name \in DecoderNames}
    \cup {Pop(DecoderCfg(PyInt(17), name), "n_cls") : name \in DecoderNames}

InitFactory ==
    /\ entry \in {"create_vit", "create_rangevit"}
    /\ \E n \in NCls, dm \in DModels, nps \in PatchOpts, nstride \in PatchOpts :
         model_cfg = Some(IF entry = "create_vit"
                          THEN Pop(CallerCfg(n, dm, nps, nstride), "decoder")
                          ELSE CallerCfg(n, dm, nps, nstride))
    /\ IF entry = "create_rangevit"
       THEN \E d \in CallerDecoderCfgs : decoder_cfg = Some(d)
       ELSE decoder_cfg = <<>>
    /\ \E kp \in BOOLEAN : args = [NoArgs EXCEPT !.use_kpconv = kp]
    /\ cfg0 = Some([model_cfg |-> model_cfg, decoder_cfg |-> decoder_cfg])
    /\ enc_in = <<>>
    /\ fwd = NoFwd

\* Encoders that exist: results of VisionTransformer(...) that did not raise.
Encoders ==
    {create_vit(Pop(CallerCfg(n, dm, ps, None), "decoder")).encoder[1] :
        n \in NCls, dm \in DModels, ps \in PatchOpts \ {None}}

InitCreateDecoder ==
    /\ entry = "create_decoder"
    /\ \E e \in Encoders : enc_in = Some(e)
    /\ \E d \in CallerDecoderCfgs : decoder_cfg = Some(d)
    /\ model_cfg = <<>>
    /\ cfg0 = Some([model_cfg |-> model_cfg, decoder_cfg |-> decoder_cfg])
    /\ args = NoArgs
    /\ fwd = NoFwd

InitForward ==
    /\ entry = "forward"
    /\ fwd \in [n_layers : 0..MaxLayers, num_patches : 1..MaxPatches,
                return_features : BOOLEAN]
    /\ args = NoArgs
    /\ decoder_cfg = <<>> /\ model_cfg = <<>> /\ cfg0 = <<>> /\ enc_in = <<>>

Init ==
    /\ Idle
    /\ \/ InitRangeViT
       \/ InitFactory
       \/ InitCreateDecoder
       \/ InitForward

-----------------------------------------------------------------------------
\* RangeViT.__init__, statement by statement.

Raise(e) == pc' = "raised" /\ err' = e

\* lines 196-204
CheckBackbone_fallthrough ==
    /\ entry = "RangeViT" /\ pc = "start"
    /\ hp' = Some(SmallHP) /\ pc' = "decoder_cfg" /\ err' = err
    /\ UNCHANGED <<entry, args, decoder_cfg, model_cfg, cfg0, enc_in, built, create_calls,
                   params, checkpoint, pretrained_state_dict, decoder_keys, load_calls,
                   loaded, fwd, x, skip, blk, result>>
CheckBackbone ==
    /\ entry = "RangeViT" /\ pc = "start"
    /\ IF args.backbone = "vit_small_patch16_384"
       THEN hp' = Some(SmallHP) /\ pc' = "decoder_cfg" /\ err' = err
       ELSE hp' = hp /\ Raise("NameError")
    /\ UNCHANGED <<entry, args, decoder_cfg, model_cfg, cfg0, enc_in, built, create_calls,
                   params, checkpoint, pretrained_state_dict, decoder_keys, load_calls,
                   loaded, fwd, x, skip, blk, result>>

\* lines 207-212: decoder_cfg stays unbound unless decoder == 'up_conv'
BuildDecoderCfg ==
    /\ entry = "RangeViT" /\ pc = "decoder_cfg"
    /\ decoder_cfg' = IF args.decoder = "up_conv"
                      THEN Some(DecoderCfg(args.n_cls, "up_conv"))
                      ELSE <<>>
    /\ pc' = "net_kwargs"
    /\ UNCHANGED <<entry, err, args, hp, model_cfg, cfg0, enc_in, built, create_calls,
                   params, checkpoint, pretrained_state_dict, decoder_keys, load_calls,
                   loaded, fwd, x, skip, blk, result>>

\* lines 215-232: reading the unbound local decoder_cfg raises
BuildNetKwargs ==
    /\ entry = "RangeViT" /\ pc = "net_kwargs"
    /\ IF decoder_cfg = <<>>
       THEN Raise("UnboundLocalError") /\ UNCHANGED <<model_cfg, cfg0>>
       ELSE /\ model_cfg' = Some(NetKwargs(args, hp[1]))
            /\ cfg0' = Some([model_cfg |-> model_cfg', decoder_cfg |-> decoder_cfg])
            /\ pc' = "create" /\ err' = err
    /\ UNCHANGED <<entry, args, hp, decoder_cfg, enc_in, built, create_calls,
                   params, checkpoint, pretrained_state_dict, decoder_keys, load_calls,
                   loaded, fwd, x, skip, blk, result>>

\* lines 235-237: self.rangevit = create_rangevit(net_kwargs, use_kpconv)
CreateRangevit ==
    /\ entry = "RangeViT" /\ pc = "create"
    /\ LET r == create_rangevit(model_cfg[1], decoder_cfg[1], args.use_kpconv)
       IN  /\ built' = r.built
           /\ decoder_cfg' = Some(r.decoder_obj)
           /\ IF r.err # "" THEN Raise(r.err) ELSE pc' = "pretrained" /\ err' = err
    /\ create_calls' = create_calls + 1
    /\ UNCHANGED <<entry, args, hp, model_cfg, cfg0, enc_in,
                   params, checkpoint, pretrained_state_dict, decoder_keys, load_calls,
                   loaded, fwd, x, skip, blk, result>>

\* lines 241-243: torch.load reads the checkpoint file, whatever it holds
TorchLoad ==
    /\ entry = "RangeViT" /\ pc = "pretrained"
    /\ IF args.pretrained_path = None
       THEN pc' = "done" /\ UNCHANGED <<checkpoint, pretrained_state_dict>>
       ELSE \E c \in Checkpoints :
              /\ checkpoint' = Some(c)
              /\ pretrained_state_dict' = Some(c)
              /\ pc' = "del_pos_embed"
    /\ UNCHANGED <<entry, err, args, hp, decoder_cfg, model_cfg, cfg0, enc_in, built,
                   create_calls, params, decoder_keys, load_calls,
                   loaded, fwd, x, skip, blk, result>>

\* line 245: del pretrained_state_dict['encoder.pos_embed'], KeyError when the key is absent
DelPosEmbed ==
    /\ entry = "RangeViT" /\ pc = "del_pos_embed"
    /\ IF K_pos_embed \in DOMAIN pretrained_state_dict[1]
       THEN /\ pretrained_state_dict' = Some(Pop(pretrained_state_dict[1], K_pos_embed))
            /\ pc' = "del_proj_weight" /\ err' = err
       ELSE Raise("KeyError") /\ UNCHANGED pretrained_state_dict
    /\ UNCHANGED <<entry, args, hp, decoder_cfg, model_cfg, cfg0, enc_in, built,
                   create_calls, params, checkpoint, decoder_keys, load_calls,
                   loaded, fwd, x, skip, blk, result>>

\* line 246: del pretrained_state_dict['encoder.patch_embed.proj.weight'], KeyError when the key is absent
DelProjWeight ==
    /\ entry = "RangeViT" /\ pc = "del_proj_weight"
    /\ IF K_proj_weight \in DOMAIN pretrained_state_dict[1]
       THEN /\ pretrained_state_dict' = Some(Pop(pretrained_state_dict[1], K_proj_weight))
            /\ pc' = "del_proj_bias" /\ err' = err
       ELSE Raise("KeyError") /\ UNCHANGED pretrained_state_dict
    /\ UNCHANGED <<entry, args, hp, decoder_cfg, model_cfg, cfg0, enc_in, built,
                   create_calls, params, checkpoint, decoder_keys, load_calls,
                   loaded, fwd, x, skip, blk, result>>

\* line 247: del pretrained_state_dict['encoder.patch_embed.proj.bias'], KeyError when the key is absent
DelProjBias ==
    /\ entry = "RangeViT" /\ pc = "del_proj_bias"
    /\ IF K_proj_bias \in DOMAIN pretrained_state_dict[1]
       THEN /\ pretrained_state_dict' = Some(Pop(pretrained_state_dict[1], K_proj_bias))
            /\ pc' = "collect" /\ err' = err
       ELSE Raise("KeyError") /\ UNCHANGED pretrained_state_dict
    /\ UNCHANGED <<entry, args, hp, decoder_cfg, model_cfg, cfg0, enc_in, built,
                   create_calls, params, checkpoint, decoder_keys, load_calls,
                   loaded, fwd, x, skip, blk, result>>

\* lines 250-253
CollectDecoderKeys_prefix ==
    /\ entry = "RangeViT" /\ pc = "collect"
    /\ decoder_keys' = {key \in DOMAIN pretrained_state_dict[1] :
                            SubSeq(key, 1, Len(decoder_substr)) = decoder_substr}
    /\ pc' = "delete"
    /\ UNCHANGED <<entry, err, args, hp, decoder_cfg, model_cfg, cfg0, enc_in, built,
                   create_calls, params, checkpoint, pretrained_state_dict, load_calls,
                   loaded, fwd, x, skip, blk, result>>
CollectDecoderKeys ==
    /\ entry = "RangeViT" /\ pc = "collect"
    /\ decoder_keys' = {key \in DOMAIN pretrained_state_dict[1] :
                            Contains(key, decoder_substr)}
    /\ pc' = "delete"
    /\ UNCHANGED <<entry, err, args, hp, decoder_cfg, model_cfg, cfg0, enc_in, built,
                   create_calls, params, checkpoint, pretrained_state_dict, load_calls,
                   loaded, fwd, x, skip, blk, result>>

\* lines 254-255
DeleteDecoderKeys_skip ==
    /\ entry = "RangeViT" /\ pc = "delete"
    /\ pc' = "load"
    /\ UNCHANGED <<entry, err, args, hp, decoder_cfg, model_cfg, cfg0, enc_in, built,
                   create_calls, params, checkpoint, pretrained_state_dict, decoder_keys,
                   load_calls, loaded, fwd, x, skip, blk, result>>
DeleteDecoderKeys ==
    /\ entry = "RangeViT" /\ pc = "delete"
    /\ pretrained_state_dict' =
         Some([key \in DOMAIN pretrained_state_dict[1] \ decoder_keys |->
                  pretrained_state_dict[1][key]])
    /\ pc' = "load"
    /\ UNCHANGED <<entry, err, args, hp, decoder_cfg, model_cfg, cfg0, enc_in, built,
                   create_calls, params, checkpoint, decoder_keys, load_calls,
                   loaded, fwd, x, skip, blk, result>>

\* line 257
LoadStateDict ==
    /\ entry = "RangeViT" /\ pc = "load"
    /\ params' = load_state_dict(params, pretrained_state_dict[1])
    /\ loaded' = pretrained_state_dict
    /\ load_calls' = load_calls + 1
    /\ pc' = "done"
    /\ UNCHANGED <<entry, err, args, hp, decoder_cfg, model_cfg, cfg0, enc_in, built,
                   create_calls, checkpoint, pretrained_state_dict, decoder_keys,
                   fwd, x, skip, blk, result>>

-----------------------------------------------------------------------------
\* Direct calls of the factory functions.

CallCreateVit ==
    /\ entry = "create_vit" /\ pc = "start"
    /\ LET r == create_vit(model_cfg[1])
       IN  /\ built' = [NotBuilt EXCEPT !.encoder = r.encoder, !.vit_kwargs = r.vit_kwargs]
           /\ IF r.err # "" THEN Raise(r.err) ELSE pc' = "done" /\ err' = err
    /\ UNCHANGED <<entry, args, hp, decoder_cfg, model_cfg, cfg0, enc_in, create_calls,
                   params, checkpoint, pretrained_state_dict, decoder_keys, load_calls,
                   loaded, fwd, x, skip, blk, result>>

CallCreateDecoder ==
    /\ entry = "create_decoder" /\ pc = "start"
    /\ LET r == create_decoder(enc_in[1], decoder_cfg[1])
       IN  /\ built' = [NotBuilt EXCEPT !.encoder = enc_in, !.decoder = r.decoder,
                                        !.decoder_kwargs = r.decoder_kwargs]
           /\ IF r.err # "" THEN Raise(r.err) ELSE pc' = "done" /\ err' = err
    /\ UNCHANGED <<entry, args, hp, decoder_cfg, model_cfg, cfg0, enc_in, create_calls,
                   params, checkpoint, pretrained_state_dict, decoder_keys, load_calls,
                   loaded, fwd, x, skip, blk, result>>

CallCreateRangevit ==
    /\ entry = "create_rangevit" /\ pc = "start"
    /\ LET r == create_rangevit(model_cfg[1], decoder_cfg[1], args.use_kpconv)
       IN  /\ built' = r.built
           /\ decoder_cfg' = Some(r.decoder_obj)
           /\ IF r.err # "" THEN Raise(r.err) ELSE pc' = "done" /\ err' = err
    /\ create_calls' = create_calls + 1
    /\ UNCHANGED <<entry, args, hp, model_cfg, cfg0, enc_in,
                   params, checkpoint, pretrained_state_dict, decoder_keys, load_calls,
                   loaded, fwd, x, skip, blk, result>>

-----------------------------------------------------------------------------
\* VisionTransformer.forward (lines 100-115).  A token records where it came
\* from (src 0 is the class token, src j the j-th patch of the stem), the row
\* of the positional embedding added to it (0: none yet) and the layers that
\* have been applied to it, in order.

Layer(op, idx) == [op |-> op, idx |-> idx]
Tok(src) == [src |-> src, pos |-> 0, hist |-> <<>>]
Apply(xs, layer) == [j \in 1..Len(xs) |-> [xs[j] EXCEPT !.hist = Append(@, layer)]]

FwdFrame ==
    UNCHANGED <<entry, args, hp, decoder_cfg, model_cfg, cfg0, enc_in, built, create_calls,
                params, checkpoint, pretrained_state_dict, decoder_keys, load_calls,
                loaded, fwd>>

\* line 102: the stem returns some number of patch tokens and the skip tensor
FwdStem ==
    /\ entry = "forward" /\ pc = "start"
    /\ \E n \in 0..MaxPatches :
         /\ x' = [j \in 1..n |-> Tok(j)]
         /\ skip' = Some([patches |-> n])
    /\ pc' = "cat"
    /\ UNCHANGED <<err, blk, result>>
    /\ FwdFrame

\* lines 104-105: torch.cat((cls_tokens, x), dim=1)
FwdCat ==
    /\ entry = "forward" /\ pc = "cat"
    /\ x' = <<Tok(0)>> \o x
    /\ pc' = "pos_embed"
    /\ UNCHANGED <<err, skip, blk, result>>
    /\ FwdFrame

\* lines 106-108: x + pos_embed, with the framework's broadcasting over the
\* sequence dimension; pos_embed has num_patches + 1 rows (line 77)
FwdPosEmbed ==
    /\ entry = "forward" /\ pc = "pos_embed"
    /\ LET rows == fwd.num_patches + 1
       IN  IF Len(x) = rows
           THEN /\ x' = [j \in 1..rows |-> [x[j] EXCEPT !.pos = j]]
                /\ pc' = "dropout" /\ err' = err
           ELSE IF Len(x) = 1
           THEN /\ x' = [j \in 1..rows |-> [x[1] EXCEPT !.pos = j]]
                /\ pc' = "dropout" /\ err' = err
           ELSE IF rows = 1
           THEN /\ x' = [j \in 1..Len(x) |-> [x[j] EXCEPT !.pos = 1]]
                /\ pc' = "dropout" /\ err' = err
           ELSE Raise("RuntimeError") /\ x' = x
    /\ UNCHANGED <<skip, blk, result>>
    /\ FwdFrame

\* line 109
FwdDropout ==
    /\ entry = "forward" /\ pc = "dropout"
    /\ x' = Apply(x, Layer("dropout", 0))
    /\ blk' = 0
    /\ pc' = "blocks"
    /\ UNCHANGED <<err, skip, result>>
    /\ FwdFrame

\* lines 111-112: one iteration of  for blk in self.blocks
FwdBlock_features ==
    /\ entry = "forward" /\ pc = "blocks" /\ blk < fwd.n_layers
    /\ x' = IF fwd.return_features /\ blk = fwd.n_layers - 1
            THEN x ELSE Apply(x, Layer("block", blk))
    /\ blk' = blk + 1
    /\ UNCHANGED <<pc, err, skip, result>>
    /\ FwdFrame
FwdBlock ==
    /\ entry = "forward" /\ pc = "blocks" /\ blk < fwd.n_layers
    /\ x' = Apply(x, Layer("block", blk))
    /\ blk' = blk + 1
    /\ UNCHANGED <<pc, err, skip, result>>
    /\ FwdFrame

\* line 114, reached when the loop is exhausted
FwdNorm ==
    /\ entry = "forward" /\ pc = "blocks" /\ blk = fwd.n_layers
    /\ x' = Apply(x, Layer("norm", 0))
    /\ pc' = "return"
    /\ UNCHANGED <<err, skip, blk, result>>
    /\ FwdFrame

\* line 115
FwdReturn ==
    /\ entry = "forward" /\ pc = "return"
    /\ result' = Some([x |-> x, skip |-> skip])
    /\ pc' = "done"
    /\ UNCHANGED <<err, x, skip, blk>>
    /\ FwdFrame

-----------------------------------------------------------------------------
Next ==
    \/ CheckBackbone
    \/ BuildDecoderCfg
    \/ BuildNetKwargs
    \/ CreateRangevit
    \/ TorchLoad
    \/ DelPosEmbed
    \/ DelProjWeight
    \/ DelProjBias
    \/ CollectDecoderKeys
    \/ DeleteDecoderKeys
    \/ LoadStateDict
    \/ CallCreateVit
    \/ CallCreateDecoder
    \/ CallCreateRangevit
    \/ FwdStem
    \/ FwdCat
    \/ FwdPosEmbed
    \/ FwdDropout
    \/ FwdBlock
    \/ FwdNorm
    \/ FwdReturn

Spec == Init /\ [][Next]_vars

TypeOK ==
    /\ pc \in {"start", "decoder_cfg", "net_kwargs", "create", "pretrained",
               "del_pos_embed", "del_proj_weight", "del_proj_bias", "collect",
               "delete", "load", "cat", "pos_embed", "dropout", "blocks",
               "return", "done", "raised"}
    /\ (pc = "raised") = (err # "")

-----------------------------------------------------------------------------
\* Properties.

SurgeryKeys == {K_pos_embed, K_proj_weight, K_proj_bias}
StrideResolves(a) ==
    /\ a.new_patch_size # None
    /\ a.new_patch_stride \in {None, a.new_patch_size}

\* C1: with a backbone other than 'vit_small_patch16_384' the constructor
\* raises NameError at once: create_rangevit has not been called, nothing is
\* built, net_kwargs is not assembled and the checkpoint is not read,
\* whatever the other arguments are.
C1_UnknownBackboneRaisesFirst ==
    (entry = "RangeViT" /\ args.backbone # "vit_small_patch16_384" /\ pc # "start") =>
        /\ pc = "raised" /\ err = "NameError"
        /\ create_calls = 0 /\ built = NotBuilt
        /\ model_cfg = <<>> /\ decoder_cfg = <<>>
        /\ checkpoint = <<>> /\ load_calls = 0 /\ params = InitParams

C1_Witness ==
    /\ entry = "RangeViT" /\ pc = "raised"
    /\ args.backbone = "vit_base_patch16_384"
    /\ args.decoder = "up_conv" /\ StrideResolves(args)
    /\ args.pretrained_path # None

\* C2 as stated: with the known backbone, construction never raises.
C2_OnlyErrorPath ==
    (entry = "RangeViT" /\ args.backbone = "vit_small_patch16_384") => pc # "raised"

\* C2 amended: with the known backbone, construction completes only if
\* decoder is 'up_conv', new_patch_size is given, the resolved stride equals
\* it and (when a checkpoint is loaded) the checkpoint holds the three keys
\* that are deleted; otherwise it raises UnboundLocalError, AssertionError
\* or KeyError, in that order of precedence.
C2_ErrorPaths ==
    (entry = "RangeViT" /\ args.backbone = "vit_small_patch16_384") =>
        /\ pc = "done" =>
              /\ args.decoder = "up_conv"
              /\ StrideResolves(args)
              /\ args.pretrained_path # None => SurgeryKeys \subseteq DOMAIN checkpoint[1]
        /\ pc = "raised" =>
              IF args.decoder # "up_conv" THEN err = "UnboundLocalError"
              ELSE IF ~StrideResolves(args) THEN err = "AssertionError"
              ELSE /\ err = "KeyError"
                   /\ args.pretrained_path # None
                   /\ ~(SurgeryKeys \subseteq DOMAIN checkpoint[1])
        /\ (args.decoder # "up_conv" /\ pc \notin {"start", "decoder_cfg", "net_kwargs"})
              => pc = "raised"
        /\ (~StrideResolves(args) /\ pc \notin {"start", "decoder_cfg", "net_kwargs", "create"})
              => pc = "raised"

\* the constructor's own defaults (new_patch_size=None, new_patch_stride=None)
C2_Witness ==
    /\ entry = "RangeViT" /\ pc = "raised" /\ err = "AssertionError"
    /\ args.backbone = "vit_small_patch16_384" /\ args.decoder = "up_conv"
    /\ args.new_patch_size = None /\ args.new_patch_stride = None
    /\ args.pretrained_path = None

\* C3: the dict handed to load_state_dict is the checkpoint minus the three
\* named keys and minus every key containing 'decoder'; nothing else is
\* removed, nothing is added, retained values are unchanged.
C3_Surgery ==
    load_calls > 0 =>
        /\ DOMAIN loaded[1] =
              {k \in DOMAIN checkpoint[1] :
                  k \notin SurgeryKeys /\ ~Contains(k, decoder_substr)}
        /\ \A k \in DOMAIN loaded[1] : loaded[1][k] = checkpoint[1][k]

C3_Witness ==
    /\ load_calls = 1
    /\ DOMAIN checkpoint[1] = CheckpointKeys
    /\ DOMAIN loaded[1] = {K_cls_token}
    /\ loaded[1][K_cls_token] = 2

\* C4: load_state_dict runs at most once, never without a pretrained_path,
\* exactly once in a construction that completes with one, and only on the
\* dict from which every deletion has been made; parameters whose key is not
\* in that dict (pos_embed, the stem projection, decoder parameters) keep
\* their initial value, and without a pretrained_path all of them do.
C4_PartialLoad ==
    entry = "RangeViT" =>
        /\ load_calls \in {0, 1}
        /\ args.pretrained_path = None => load_calls = 0
        /\ (pc = "done" /\ args.pretrained_path # None) => load_calls = 1
        /\ load_calls = 0 => params = InitParams
        /\ load_calls = 1 =>
              /\ pc = "done"
              /\ loaded = pretrained_state_dict
              /\ SurgeryKeys \cap DOMAIN loaded[1] = {}
              /\ \A k \in DOMAIN loaded[1] : ~Contains(k, decoder_substr)
              /\ \A k \in ModelKeys \ DOMAIN loaded[1] : params[k] = InitParams[k]
              /\ params[K_pos_embed] = InitParams[K_pos_embed]
              /\ params[K_proj_weight] = InitParams[K_proj_weight]
              /\ params[K_decoder_head] = InitParams[K_decoder_head]

C4_Witness ==
    /\ entry = "RangeViT" /\ pc = "done" /\ load_calls = 1
    /\ DOMAIN checkpoint[1] = CheckpointKeys
    /\ params[K_cls_token] = checkpoint[1][K_cls_token]
    /\ params[K_decoder_head] # checkpoint[1][K_decoder_head]

\* C5: the assembled model has a KPClassifier exactly when use_kpconv is true.
C5_KPClassifierOptional ==
    (entry \in {"RangeViT", "create_rangevit"} /\ pc \notin {"start", "decoder_cfg",
                                                             "net_kwargs", "create", "raised"}) =>
        ((built.kpclassifier # <<>>) <=> args.use_kpconv)

\* C6: the keyword dict create_vit hands to VisionTransformer: patch_size and
\* patch_stride come from new_patch_size / new_patch_stride (stride defaulting
\* to the size) when new_patch_size is given; otherwise patch_size is the
\* original one, there is no patch_stride entry and new_patch_stride is
\* dropped; d_ff is 4 * d_model; 'backbone', 'new_patch_size' and
\* 'new_patch_stride' are never forwarded.
C6_PatchResolution ==
    built.vit_kwargs # <<>> =>
        LET kw == built.vit_kwargs[1]
            cfg == cfg0[1].model_cfg[1]
        IN  /\ cfg["new_patch_size"] # None =>
                  /\ kw["patch_size"] = cfg["new_patch_size"]
                  /\ "patch_stride" \in DOMAIN kw
                  /\ kw["patch_stride"] = IF cfg["new_patch_stride"] = None
                                          THEN cfg["new_patch_size"]
                                          ELSE cfg["new_patch_stride"]
            /\ cfg["new_patch_size"] = None =>
                  /\ kw["patch_size"] = cfg["patch_size"]
                  /\ "patch_stride" \notin DOMAIN kw
            /\ kw["d_ff"] = <<4 * cfg["d_model"][1]>>
            /\ DOMAIN kw = ((DOMAIN cfg \ {"backbone", "new_patch_size", "new_patch_stride",
                                           "decoder"})
                            \cup {"d_ff"}
                            \cup (IF cfg["new_patch_size"] # None THEN {"patch_stride"} ELSE {}))

C6_Witness ==
    /\ entry = "create_vit" /\ built.vit_kwargs # <<>>
    /\ cfg0[1].model_cfg[1]["new_patch_size"] = None
    /\ cfg0[1].model_cfg[1]["new_patch_stride"] = <<4, 4>>
    /\ cfg0[1].model_cfg[1]["d_model"] = <<192>>
    /\ built.vit_kwargs[1]["d_ff"] = <<768>>

\* C7: in every model whose construction completes the encoder's
\* patch_stride equals its patch_size and the decoder was built with the
\* encoder's d_model, patch_size, patch_stride and the model's n_cls;
\* create_decoder with a name other than 'up_conv' raises ValueError and
\* yields no decoder.
C7_Consistency ==
    /\ (entry \in {"RangeViT", "create_rangevit"} /\ built.model # <<>>) =>
          LET e == built.encoder[1]
              d == built.decoder[1]
          IN  /\ e.patch_stride = e.patch_size
              /\ d["d_encoder"] = e.d_model
              /\ d["patch_size"] = e.patch_size
              /\ d["patch_stride"] = e.patch_stride
              /\ d["n_cls"] = built.model[1].n_cls
              /\ d["n_cls"] = e.n_cls
              /\ entry = "RangeViT" => d["n_cls"] = args.n_cls
    /\ (entry = "create_decoder" /\ pc # "start") =>
          IF cfg0[1].decoder_cfg[1]["name"] = "up_conv"
          THEN /\ pc = "done"
               /\ built.decoder[1]["d_encoder"] = enc_in[1].d_model
               /\ built.decoder[1]["patch_size"] = enc_in[1].patch_size
               /\ built.decoder[1]["patch_stride"] = enc_in[1].patch_stride
          ELSE pc = "raised" /\ err = "ValueError" /\ built.decoder = <<>>

C7_Witness ==
    /\ entry = "create_rangevit" /\ pc = "done" /\ built.model # <<>>
    /\ "n_cls" \notin DOMAIN cfg0[1].decoder_cfg[1]
    /\ built.decoder[1]["patch_size"] = <<2, 8>>
    /\ built.decoder[1]["n_cls"] = <<20>>

\* C8: forward returns (tokens, skip) where the class token comes first, row
\* j of the positional embedding was added to token j, and every token went
\* through dropout, blocks 0..n_layers-1 once each in that order, then the
\* final norm; the length is num_patches + 1; return_features changes nothing.
ExpectedLayers(n) ==
    <<Layer("dropout", 0)>> \o [k \in 1..n |-> Layer("block", k - 1)] \o <<Layer("norm", 0)>>

C8_ForwardComposition ==
    (entry = "forward" /\ pc = "done") =>
        LET r == result[1]
            stem == r.skip[1].patches
        IN  /\ r.skip = skip
            /\ Len(r.x) = fwd.num_patches + 1
            /\ r.x[1].src = 0
            /\ stem = fwd.num_patches => \A j \in 1..stem : r.x[j + 1].src = j
            /\ \A j \in 1..Len(r.x) :
                  /\ r.x[j].pos = j
                  /\ r.x[j].hist = ExpectedLayers(fwd.n_layers)

C8_Witness ==
    /\ entry = "forward" /\ pc = "done"
    /\ fwd.return_features /\ fwd.n_layers = 2 /\ fwd.num_patches = 3
    /\ Len(result[1].x) = 4 /\ result[1].x[4].src = 3

\* C9: after a factory function returns, the dicts its caller passed
\* (model_cfg and the nested decoder dict) are as they were before the call.
C9_CallerConfigUntouched ==
    (entry \in {"create_vit", "create_decoder", "create_rangevit"} /\ pc = "done") =>
        /\ model_cfg = cfg0[1].model_cfg
        /\ decoder_cfg = cfg0[1].decoder_cfg

====
